---- MODULE Spec2Model ----
(***************************************************************************)
(* Bias-aware hierarchical clustering: the fit loop and nearest-centroid   *)
(* predict of BiasAwareHierarchicalClustering                              *)
(* (src/unsupervised_bias_detection/clustering/_bahc.py).                  *)
(*                                                                         *)
(* Conventions.                                                            *)
(*  - Points are indexed 1..N here (0..N-1 in numpy); cluster labels are   *)
(*    0-based as in the code.                                              *)
(*  - X has one feature column of values 0 / 1; y[i] is a small natural.   *)
(*  - _split is abstract and may return any 0/1 labelling, so the values   *)
(*    of X are first read by calc_centroids on line 129; the rows of X     *)
(*    are drawn there (one per entry of y) instead of being carried        *)
(*    through the loop.                                                    *)
(*  - Every float the code computes (means, scores, centroids, squared     *)
(*    distances) is held as an exact fraction [num, den] with den > 0,     *)
(*    reduced to lowest terms; den = 0 is NaN (numpy's mean / std of an    *)
(*    empty slice), and every ordered comparison with NaN is false, as in  *)
(*    IEEE / Python.  Rounding of binary floating point is not modelled.   *)
(*  - The heap key -np.std(..) is held as the variance it comes from; the  *)
(*    key order is the reverse of the variance order (KeyLt).              *)
(***************************************************************************)
EXTENDS Integers, Sequences, FiniteSets

VARIABLES
    n_iter,            \* self.n_iter
    min_cluster_size,  \* self.min_cluster_size
    attrs,             \* names of the fitted attributes that exist on self
    n_clusters_,       \* self.n_clusters_
    labels_,           \* self.labels_   (sequence over points)
    scores_,           \* self.scores_   (sequence of fractions)
    centroids_,        \* self.centroids_ (one fraction per column)
    phase,             \* "new" | "fitting" | "fitted"
    y,                 \* the metric values of the running fit
    it,                \* iterations of the for loop consumed so far
    labels,            \* local labels
    heap,              \* local heap (heapq list)
    clusters, scores,  \* local lists of finalized clusters / their scores
    label, score,      \* locals label, score (last popped)
    indices0, indices1,\* locals of the last iteration (sets of points)
    score0, score1,    \* locals score0, score1 (kept across iterations)
    called,            \* the last method invoked on the engine, and of that
    predX, ret, raised \* call: predict's input, its return value, the exception

vars == <<n_iter, min_cluster_size, attrs, n_clusters_, labels_, scores_,
          centroids_, phase, y, it, labels, heap, clusters, scores,
          label, score, indices0, indices1, score0, score1,
          called, predX, ret, raised>>

fitted == <<attrs, n_clusters_, labels_, scores_, centroids_>>
locals == <<it, labels, heap, clusters, scores, label, score,
            indices0, indices1, score0, score1>>

(* ---------------- bounds ---------------- *)
MaxN == 3
MaxY == 1
MaxIter == 3
MaxMinSize == 2
MaxPredRows == 1

\* the values of the one feature column: a binary (one-hot) feature
FeatureValues == {0, 1}

(* ---------------- exact fractions ---------------- *)
Abs(a) == IF a < 0 THEN -a ELSE a

RECURSIVE GCD(_, _)
GCD(a, b) == IF b = 0 THEN a ELSE GCD(b, a % b)

\* n/d with d > 0, in lowest terms
Rat(n, d) ==
    LET g == GCD(Abs(n), d)
    IN [num |-> n \div g, den |-> d \div g]

NaN == [num |-> 0, den |-> 0]
Zero == [num |-> 0, den |-> 1]
IsNaN(a) == a.den = 0

RatSub(a, b) ==
    IF IsNaN(a) \/ IsNaN(b) THEN NaN
    ELSE Rat(a.num * b.den - b.num * a.den, a.den * b.den)

RatLt(a, b) == ~IsNaN(a) /\ ~IsNaN(b) /\ a.num * b.den < b.num * a.den
RatGe(a, b) == ~IsNaN(a) /\ ~IsNaN(b) /\ a.num * b.den >= b.num * a.den
RatEq(a, b) == ~IsNaN(a) /\ ~IsNaN(b) /\ a.num * b.den = b.num * a.den

RECURSIVE SumOver(_, _)
SumOver(f, S) ==
    IF S = {} THEN 0
    ELSE LET i == CHOOSE j \in S : TRUE
         IN f[i] + SumOver(f, S \ {i})

\* np.mean(v[S])
Mean(v, S) ==
    IF S = {} THEN NaN ELSE Rat(SumOver(v, S), Cardinality(S))

\* np.std(v[S]) squared: (n * sum v^2 - (sum v)^2) / n^2
Variance(v, S) ==
    IF S = {} THEN NaN
    ELSE LET n == Cardinality(S)
             s == SumOver(v, S)
             q == SumOver([i \in DOMAIN v |-> v[i] * v[i]], S)
         IN Rat(n * q - s * s, n * n)

\* Python's max(a, b): b only if b > a
PyMax(a, b) == IF RatLt(a, b) THEN b ELSE a

(* ---------------- heapq ---------------- *)
\* key None of the initial entry
NoneKey == [num |-> 0, den |-> -1]

\* variant: the std is pushed without the negation
KeyLtAscending(a, b) == RatLt(a, b)

\* -std_a < -std_b  iff  var_a > var_b
KeyLt(a, b) == RatLt(b, a)
KeyNe(a, b) == ~RatEq(a, b)

\* tuple comparison (key, label, score) < (key, label, score)
TupleLt(a, b) ==
    IF KeyNe(a.key, b.key) THEN KeyLt(a.key, b.key)
    ELSE IF a.label # b.label THEN a.label < b.label
    ELSE RatLt(a.score, b.score)

\* heapq._siftdown(heap, startpos, pos) with newitem carried along;
\* positions are 1-based, the parent of p is p \div 2
RECURSIVE SiftDown(_, _, _, _)
SiftDown(h, startpos, pos, newitem) ==
    IF pos > startpos /\ TupleLt(newitem, h[pos \div 2])
    THEN SiftDown([h EXCEPT ![pos] = h[pos \div 2]], startpos, pos \div 2, newitem)
    ELSE [h EXCEPT ![pos] = newitem]

\* heapq._siftup(heap, pos): bubble the smaller child up to a leaf, then
\* sift newitem down from there
RECURSIVE SiftUp(_, _, _, _)
SiftUp(h, startpos, pos, newitem) ==
    LET childpos == 2 * pos
        rightpos == childpos + 1
        c == IF rightpos <= Len(h) /\ ~TupleLt(h[childpos], h[rightpos])
             THEN rightpos ELSE childpos
    IN IF childpos <= Len(h)
       THEN SiftUp([h EXCEPT ![pos] = h[c]], startpos, c, newitem)
       ELSE SiftDown(h, startpos, pos, newitem)

HeapPush(h, item) == SiftDown(Append(h, item), 1, Len(h) + 1, item)

\* the item heappop returns, and the heap it leaves
HeapTop(h) == h[1]
HeapRest(h) ==
    LET lastelt == h[Len(h)]
        short == SubSeq(h, 1, Len(h) - 1)
    IN IF short = <<>> THEN <<>> ELSE SiftUp(short, 1, 1, lastelt)

Entry(k, l, s) == [key |-> k, label |-> l, score |-> s]

(* ---------------- fit ---------------- *)
\* np.nonzero(labels == l)[0]
PointsOf(lab, l) == {i \in DOMAIN lab : lab[i] = l}

\* formula (1): mean of y outside the side minus mean of y inside it
Discrimination(yv, side) ==
    RatSub(Mean(yv, DOMAIN yv \ side), Mean(yv, side))

\* the engine after __init__ (lines 19-21): no fitted attribute exists yet
InitWith(sizes) ==
    /\ n_iter \in 0..MaxIter
    /\ min_cluster_size \in sizes
    /\ attrs = {}
    /\ n_clusters_ = 0
    /\ labels_ = <<>>
    /\ scores_ = <<>>
    /\ centroids_ = <<>>
    /\ phase = "new"
    /\ y = <<>>
    /\ it = 0
    /\ labels = <<>>
    /\ heap = <<>>
    /\ clusters = <<>>
    /\ scores = <<>>
    /\ label = 0
    /\ score = Zero
    /\ indices0 = {}
    /\ indices1 = {}
    /\ score0 = Zero
    /\ score1 = Zero
    /\ called = "__init__"
    /\ predX = <<>>
    /\ ret = <<>>
    /\ raised = "none"

\* configurations of section 4.2: n_iter >= 0, min_cluster_size >= 1
Init == InitWith(1..MaxMinSize)

\* every configuration __init__ stores, min_cluster_size = 0 included
InitAnyConfig == InitWith(0..MaxMinSize)

\* fit, lines 66-79: validation passed, one cluster holding every point
FitBegin ==
    /\ phase = "new"
    /\ \E n \in 1..MaxN :
         /\ y' \in [1..n -> 0..MaxY]
         /\ labels' = [i \in 1..n |-> 0]
    /\ n_clusters_' = 1
    /\ attrs' = attrs \cup {"n_clusters_"}
    /\ clusters' = <<>>
    /\ scores' = <<>>
    /\ label' = 0
    /\ score' = Zero
    /\ heap' = <<Entry(NoneKey, 0, Zero)>>
    /\ it' = 0
    /\ phase' = "fitting"
    /\ called' = "fit"
    /\ predX' = <<>>
    /\ ret' = <<>>
    /\ raised' = "none"
    /\ UNCHANGED <<n_iter, min_cluster_size, labels_, scores_, centroids_,
                   indices0, indices1, score0, score1>>

\* fit, lines 66-68: _validate_data refuses X and y of different lengths
\* before anything is assigned
FitInvalidInput ==
    /\ phase = "new"
    /\ \E nx, ny \in 1..MaxN : nx # ny
    /\ called' = "fit"
    /\ predX' = <<>>
    /\ ret' = <<>>
    /\ raised' = "ValueError"
    /\ UNCHANGED <<n_iter, min_cluster_size, phase, y>>
    /\ UNCHANGED fitted
    /\ UNCHANGED locals

\* variant: only the first side is measured
SizeOkFirstSide(i0, i1, m) == Cardinality(i0) >= m

\* lines 91-94
SizeOk(i0, i1, m) == Cardinality(i0) >= m /\ Cardinality(i1) >= m

\* variant: a tie with the parent's score is refused
AcceptsStrict(s0, s1, parent) == RatLt(parent, PyMax(s0, s1))

\* variant: the score test is skipped
AcceptsAlways(s0, s1, parent) == TRUE

\* line 102
Accepts(s0, s1, parent) == RatGe(PyMax(s0, s1), parent)

\* lines 105, 107: the key pushed for a side (the variance behind -std)
PushKey(yv, side) == Variance(yv, side)

\* variant: the counter is bumped before the relabelling
AcceptSplitStaleLabel(rest, i0, i1, s0, s1) ==
    /\ heap' = HeapPush(HeapPush(rest, Entry(PushKey(y, i0), label', s0)),
                        Entry(PushKey(y, i1), n_clusters_, s1))
    /\ labels' = [i \in DOMAIN labels |->
                    IF i \in i1 THEN n_clusters_ + 1 ELSE labels[i]]
    /\ n_clusters_' = n_clusters_ + 1
    /\ UNCHANGED <<clusters, scores>>

\* variant: both sides are pushed with the score of the popped cluster
AcceptSplitParentScore(rest, i0, i1, s0, s1) ==
    /\ heap' = HeapPush(HeapPush(rest, Entry(PushKey(y, i0), label', score')),
                        Entry(PushKey(y, i1), n_clusters_, score'))
    /\ labels' = [i \in DOMAIN labels |->
                    IF i \in i1 THEN n_clusters_ ELSE labels[i]]
    /\ n_clusters_' = n_clusters_ + 1
    /\ UNCHANGED <<clusters, scores>>

\* lines 106-110: both sides pushed, indices1 relabelled
AcceptSplit(rest, i0, i1, s0, s1) ==
    /\ heap' = HeapPush(HeapPush(rest, Entry(PushKey(y, i0), label', s0)),
                        Entry(PushKey(y, i1), n_clusters_, s1))
    /\ labels' = [i \in DOMAIN labels |->
                    IF i \in i1 THEN n_clusters_ ELSE labels[i]]
    /\ n_clusters_' = n_clusters_ + 1
    /\ UNCHANGED <<clusters, scores>>

\* variant: a refused split still takes a fresh label
RejectSplitCounts(rest) ==
    /\ heap' = rest
    /\ clusters' = Append(clusters, label')
    /\ scores' = Append(scores, score')
    /\ n_clusters_' = n_clusters_ + 1
    /\ UNCHANGED labels

\* variant: the finalized cluster also goes back on the queue
RejectSplitRequeue(rest) ==
    /\ heap' = HeapPush(rest, Entry(Zero, label', score'))
    /\ clusters' = Append(clusters, label')
    /\ scores' = Append(scores, score')
    /\ UNCHANGED <<labels, n_clusters_>>

\* lines 111-116: the popped cluster is finalized
RejectSplit(rest) ==
    /\ heap' = rest
    /\ clusters' = Append(clusters, label')
    /\ scores' = Append(scores, score')
    /\ UNCHANGED <<labels, n_clusters_>>

\* variant: one iteration too many
LoopContinuesInclusive(i, n, h) == i <= n /\ h # <<>>

\* lines 80-83: the loop goes on while iterations remain and the heap is
\* not empty
LoopContinues(i, n, h) == i < n /\ h # <<>>

\* one iteration of the for loop, lines 80-116; _split returns any 0/1
\* labelling of the popped cluster
FitIter ==
    /\ phase = "fitting"
    /\ LoopContinues(it, n_iter, heap)
    /\ it' = it + 1
    /\ label' = HeapTop(heap).label
    /\ score' = HeapTop(heap).score
    /\ \E side1 \in SUBSET PointsOf(labels, HeapTop(heap).label) :
         /\ indices1' = side1
         /\ indices0' = PointsOf(labels, HeapTop(heap).label) \ side1
    /\ IF SizeOk(indices0', indices1', min_cluster_size)
       THEN /\ score0' = Discrimination(y, indices0')
            /\ score1' = Discrimination(y, indices1')
            /\ IF Accepts(score0', score1', score')
               THEN AcceptSplit(HeapRest(heap), indices0', indices1',
                                score0', score1')
               ELSE RejectSplit(HeapRest(heap))
       ELSE /\ RejectSplit(HeapRest(heap))
            /\ UNCHANGED <<score0, score1>>
    /\ UNCHANGED <<n_iter, min_cluster_size, attrs, labels_, scores_,
                   centroids_, phase, y, called, predX, ret, raised>>

\* variant: the negation is forgotten, ascending order
ComesFirstAscending(a, b) == IsNaN(b) \/ RatGe(b, a)

\* line 120, the order np.argsort(-scores) sorts by: a may stand before b
\* when a >= b; NaN sorts last
ComesFirst(a, b) == IsNaN(b) \/ RatGe(a, b)

RECURSIVE Argsorts(_, _)
\* every order of the positions S of sc that np.argsort(-sc) may return:
\* descending, equal scores in either order
Argsorts(sc, S) ==
    IF S = {} THEN {<<>>}
    ELSE UNION {{<<m>> \o r : r \in Argsorts(sc, S \ {m})} :
                  m \in {a \in S : \A b \in S : ComesFirst(sc[a], sc[b])}}

\* lines 123-124: mapping = zeros(n); mapping[ranked] = arange(n)
Mapping(ranked, n) ==
    [l \in 0..(n - 1) |->
        IF \E i \in 1..Len(ranked) : ranked[i] = l
        THEN (CHOOSE i \in 1..Len(ranked) :
                 /\ ranked[i] = l
                 /\ \A j \in 1..Len(ranked) : ranked[j] = l => j <= i) - 1
        ELSE 0]

RECURSIVE SortedSeq(_)
\* np.unique: the distinct values in ascending order
SortedSeq(S) ==
    IF S = {} THEN <<>>
    ELSE LET m == CHOOSE a \in S : \A b \in S : a <= b
         IN <<m>> \o SortedSeq(S \ {m})

\* calc_centroids, lines 23-48: one column per distinct label, ascending
calc_centroids(Xv, lab) ==
    LET u == SortedSeq({lab[i] : i \in DOMAIN lab})
    IN [k \in 1..Len(u) |-> Mean(Xv, PointsOf(lab, u[k]))]

\* lines 117-131: leftovers of the heap are finalized, clusters ranked by
\* score, labels remapped, centroids computed; on return the arguments and
\* locals of the call are gone
FitEnd ==
    /\ phase = "fitting"
    /\ ~LoopContinues(it, n_iter, heap)
    /\ LET allc == clusters \o [i \in 1..Len(heap) |-> heap[i].label]
           alls == scores \o [i \in 1..Len(heap) |-> heap[i].score]
       IN \E p \in Argsorts(alls, 1..Len(alls)) :
            /\ scores_' = [i \in 1..Len(alls) |-> alls[p[i]]]
            /\ labels_' = [i \in DOMAIN labels |->
                             Mapping([k \in 1..Len(allc) |-> allc[p[k]]],
                                     n_clusters_)[labels[i]]]
    /\ \E Xv \in [DOMAIN y -> FeatureValues] :
         centroids_' = calc_centroids(Xv, labels_')
    /\ attrs' = attrs \cup {"scores_", "labels_", "centroids_"}
    /\ phase' = "fitted"
    /\ y' = <<>>
    /\ it' = 0
    /\ labels' = <<>>
    /\ heap' = <<>>
    /\ clusters' = <<>>
    /\ scores' = <<>>
    /\ label' = 0
    /\ score' = Zero
    /\ indices0' = {}
    /\ indices1' = {}
    /\ score0' = Zero
    /\ score1' = Zero
    /\ UNCHANGED <<n_iter, min_cluster_size, n_clusters_, called, predX, ret,
                   raised>>

(* ---------------- predict ---------------- *)
\* line 166 for one feature: (x - c)^2
SqDist(x, c) ==
    Rat((x * c.den - c.num) * (x * c.den - c.num), c.den * c.den)

\* np.argmin: the first column at minimal distance (0-based)
ArgMin(d) ==
    (CHOOSE k \in 1..Len(d) :
        /\ \A j \in 1..Len(d) : RatGe(d[j], d[k])
        /\ \A j \in 1..(k - 1) : RatLt(d[k], d[j])) - 1

\* lines 153-172
PredictLabels(Xp, cents) ==
    [r \in DOMAIN Xp |->
        ArgMin([k \in 1..Len(cents) |-> SqDist(Xp[r], cents[k])])]

PredictInputs == UNION {[1..m -> FeatureValues] : m \in 1..MaxPredRows}

\* variant: predict stores its answer as the fitted labels
PredictStoresLabels ==
    /\ phase = "fitted"
    /\ "centroids_" \in attrs
    /\ \E Xp \in PredictInputs :
         /\ predX' = Xp
         /\ ret' = PredictLabels(Xp, centroids_)
    /\ labels_' = ret'
    /\ called' = "predict"
    /\ raised' = "none"
    /\ UNCHANGED <<n_iter, min_cluster_size, phase, y>>
    /\ UNCHANGED <<attrs, n_clusters_, scores_, centroids_>>
    /\ UNCHANGED locals

\* predict on an engine that has centroids_
Predict ==
    /\ phase = "fitted"
    /\ "centroids_" \in attrs
    /\ \E Xp \in PredictInputs :
         /\ predX' = Xp
         /\ ret' = PredictLabels(Xp, centroids_)
    /\ called' = "predict"
    /\ raised' = "none"
    /\ UNCHANGED <<n_iter, min_cluster_size, phase, y>>
    /\ UNCHANGED fitted
    /\ UNCHANGED locals

\* predict before any fit: _validate_data(reset=False) passes, the read of
\* self.centroids_ on line 154 raises AttributeError
PredictUnfitted ==
    /\ phase = "new"
    /\ "centroids_" \notin attrs
    /\ \E Xp \in PredictInputs : predX' = Xp
    /\ ret' = <<>>
    /\ called' = "predict"
    /\ raised' = "AttributeError"
    /\ UNCHANGED <<n_iter, min_cluster_size, phase, y>>
    /\ UNCHANGED fitted
    /\ UNCHANGED locals

Next ==
    \/ FitBegin
    \/ FitInvalidInput
    \/ FitIter
    \/ FitEnd
    \/ Predict
    \/ PredictUnfitted

Spec == Init /\ [][Next]_vars

SpecAnyConfig == InitAnyConfig /\ [][Next]_vars

(* ---------------- properties ---------------- *)
HeapEntries(h) == {h[i] : i \in 1..Len(h)}
SeqRange(q) == {q[i] : i \in 1..Len(q)}

\* labels of the candidates on the queue followed by the finalized ones
ActiveSeq == [i \in 1..Len(heap) |-> heap[i].label] \o clusters

IterStep == phase = "fitting" /\ it' = it + 1
EndStep == phase = "fitting" /\ phase' = "fitted"

\* C1: at every point of fit the active labels (queue and finalized) are
\* pairwise distinct, every point carries an active label and so exactly
\* one, and no point carries a label that is not active.
ActiveLabelsPartition ==
    phase = "fitting" =>
        /\ \A i, j \in 1..Len(ActiveSeq) :
              ActiveSeq[i] = ActiveSeq[j] => i = j
        /\ DOMAIN labels = DOMAIN y
        /\ \A i \in DOMAIN labels : labels[i] \in SeqRange(ActiveSeq)
        /\ Cardinality(SeqRange(ActiveSeq)) = n_clusters_

\* two candidates on the queue, one cluster finalized, three labels in use
ActiveLabelsPartitionWitness ==
    /\ phase = "fitting"
    /\ Len(heap) = 2
    /\ Len(clusters) = 1
    /\ n_clusters_ = 3
    /\ {labels[i] : i \in DOMAIN labels} = {0, 1, 2}

\* C2: when fit returns with min_cluster_size >= 1, labels_ has one entry
\* per point, each in 0..n_clusters_-1, and every label 0..n_clusters_-1
\* is carried by at least one point.
FinalLabelsPartition ==
    [][(EndStep /\ min_cluster_size >= 1) =>
         /\ Len(labels_') = Len(y)
         /\ \A i \in 1..Len(labels_') :
               labels_'[i] >= 0 /\ labels_'[i] < n_clusters_'
         /\ \A k \in 0..(n_clusters_' - 1) :
               \E i \in 1..Len(labels_') : labels_'[i] = k]_vars

FinalLabelsPartitionWitness ==
    /\ phase = "fitted"
    /\ min_cluster_size >= 1
    /\ n_clusters_ = 3
    /\ SeqRange(labels_) = {0, 1, 2}

\* the score a finished cluster carries when the loop has ended
FinishedScore(l) ==
    IF \E i \in 1..Len(clusters) : clusters[i] = l
    THEN scores[CHOOSE i \in 1..Len(clusters) : clusters[i] = l]
    ELSE (CHOOSE e \in HeapEntries(heap) : e.label = l).score

\* C3: when fit returns, scores_ is in descending order (a NaN score, which
\* only an empty cluster has, comes last), points share a final label
\* exactly when they shared a cluster, the final label k of a point is the
\* rank of its cluster, whose score is scores_[k], and label 0 has the
\* maximum score.
RankedByScore ==
    [][EndStep =>
         /\ \A k \in 1..(Len(scores_') - 1) :
               IsNaN(scores_'[k + 1]) \/ RatGe(scores_'[k], scores_'[k + 1])
         /\ \A i, j \in DOMAIN labels :
               (labels[i] = labels[j]) <=> (labels_'[i] = labels_'[j])
         /\ \A i \in DOMAIN labels :
               scores_'[labels_'[i] + 1] = FinishedScore(labels[i])
         /\ ~IsNaN(scores_'[1])
         /\ \A i \in DOMAIN labels :
               labels_'[i] = 0 =>
                  \A l \in SeqRange(ActiveSeq) :
                     IsNaN(FinishedScore(l))
                       \/ RatGe(FinishedScore(labels[i]), FinishedScore(l))]_vars

\* a fit that ranked three clusters, two of them of equal score, all three
\* final labels in use
RankedByScoreWitness ==
    /\ phase = "fitted"
    /\ Len(scores_) = 3
    /\ RatEq(scores_[2], scores_[1])
    /\ RatLt(scores_[3], scores_[2])
    /\ SeqRange(labels_) = {0, 1, 2}

\* C4: n_clusters_ never exceeds n_iter + 1 (during fit, not even the
\* iterations done plus one); with n_iter = 0 fit ends with one cluster of
\* score 0, every point labelled 0 and a one-column centroid table.
ClusterCountBound ==
    /\ n_clusters_ <= n_iter + 1
    /\ phase = "fitting" => n_clusters_ <= it + 1
    /\ (phase = "fitted" /\ n_iter = 0) =>
          /\ n_clusters_ = 1
          /\ scores_ = <<Zero>>
          /\ \A i \in 1..Len(labels_) : labels_[i] = 0
          /\ Len(labels_) >= 1
          /\ Len(centroids_) = 1

ClusterCountBoundWitness ==
    \/ /\ phase = "fitted"
       /\ n_iter = 0
       /\ Len(labels_) = MaxN
    \/ /\ phase = "fitted"
       /\ n_iter >= 2
       /\ n_clusters_ = n_iter + 1

\* the entry of the queue that carries label l
Candidate(l) == CHOOSE e \in HeapEntries(heap) : e.label = l

\* C5: in an iteration whose two sides both have min_cluster_size points
\* or more, the split is accepted (indices1 takes the next label, the
\* cluster count grows, nothing is finalized) exactly when the larger of
\* the two sides' scores, computed from y, is at least the popped score;
\* a tie is accepted.
AcceptIffNotWorse ==
    [][(IterStep /\ Cardinality(indices0') >= min_cluster_size
                 /\ Cardinality(indices1') >= min_cluster_size) =>
         ((/\ n_clusters_' = n_clusters_ + 1
           /\ Len(heap') = Len(heap) + 1
           /\ clusters' = clusters)
          <=> (\/ RatGe(Discrimination(y, indices0'), score')
               \/ RatGe(Discrimination(y, indices1'), score')))]_vars

\* a second split accepted although its better side only ties with the
\* popped score
AcceptIffNotWorseWitness ==
    /\ phase = "fitting"
    /\ it = 2
    /\ n_clusters_ = 3
    /\ RatEq(PyMax(score0, score1), score)
    /\ Cardinality(indices0) >= min_cluster_size
    /\ Cardinality(indices1) >= min_cluster_size

\* C6: when a side is smaller than min_cluster_size, or both sides score
\* below the popped cluster, the popped cluster is finalized with the label
\* and score it was queued with, and the labels, the cluster count and the
\* other queue entries stay as they were.
RejectFinalizesUnchanged ==
    [][(IterStep /\ (\/ Cardinality(indices0') < min_cluster_size
                     \/ Cardinality(indices1') < min_cluster_size
                     \/ (/\ RatLt(Discrimination(y, indices0'), score')
                         /\ RatLt(Discrimination(y, indices1'), score')))) =>
         /\ clusters' = Append(clusters, label')
         /\ scores' = Append(scores, Candidate(label').score)
         /\ labels' = labels
         /\ n_clusters_' = n_clusters_
         /\ HeapEntries(heap') = HeapEntries(heap) \ {Candidate(label')}
         /\ Len(heap') = Len(heap) - 1]_vars

\* a split refused because one side has exactly min_cluster_size - 1
\* points, while another candidate stays on the queue
RejectFinalizesUnchangedWitness ==
    /\ phase = "fitting"
    /\ it >= 2
    /\ Len(clusters) = 1
    /\ Len(heap) = 1
    /\ clusters[1] = label
    /\ \/ Cardinality(indices0) = min_cluster_size - 1
       \/ Cardinality(indices1) = min_cluster_size - 1

\* C7: every pop takes the candidate whose points have the highest standard
\* deviation of y among the candidates on the queue, the lowest label among
\* equals; the first pop takes the initial candidate, alone on the queue,
\* and that keyless candidate is never on the queue with another one.
PopsMostDispersed ==
    [][IterStep =>
         /\ it = 0 => (heap = <<Entry(NoneKey, 0, Zero)>> /\ label' = 0)
         /\ it > 0 =>
               /\ \A e \in HeapEntries(heap) : e.key # NoneKey
               /\ \E e \in HeapEntries(heap) : e.label = label'
               /\ \A e \in HeapEntries(heap) :
                     e.label # label' =>
                        LET vp == Variance(y, PointsOf(labels, label'))
                            ve == Variance(y, PointsOf(labels, e.label))
                        IN \/ RatLt(ve, vp)
                           \/ (RatEq(ve, vp) /\ label' < e.label)
         /\ \A e \in HeapEntries(heap') : e.key # NoneKey]_vars

\* the candidate with the higher label was popped because its points are
\* more dispersed than those of the candidate left on the queue
PopsMostDispersedWitness ==
    /\ phase = "fitting"
    /\ it = 2
    /\ Len(heap) = 1
    /\ Len(clusters) = 1
    /\ label > heap[1].label
    /\ RatLt(Variance(y, PointsOf(labels, heap[1].label)),
             Variance(y, PointsOf(labels, label)))

\* C8: a predict call on a fitted engine leaves n_clusters_, labels_,
\* scores_ and centroids_ as they are, returns one label in
\* 0..n_clusters_-1 per input row, and returns for the input of the
\* previous predict call what that call returned.
PredictPure ==
    [][(phase = "fitted" /\ called' = "predict") =>
         /\ fitted' = fitted
         /\ raised' = "none"
         /\ Len(ret') = Len(predX')
         /\ \A r \in 1..Len(ret') : ret'[r] >= 0 /\ ret'[r] < n_clusters_
         /\ (called = "predict" /\ predX' = predX) => ret' = ret]_vars

\* a predict call on an engine of two clusters that answered 1
PredictPureWitness ==
    /\ phase = "fitted"
    /\ called = "predict"
    /\ n_clusters_ = 2
    /\ Len(centroids_) = 2
    /\ ret = <<1>>

\* C9: predict on an engine that was never fitted fails with NotFittedError
\* and returns no labels.
PredictUnfittedNotFittedError ==
    (phase = "new" /\ called = "predict") =>
        (raised = "NotFittedError" /\ ret = <<>>)

\* C10: with min_cluster_size <= 0 fit is refused at entry: the loop is
\* never entered, no fitted attribute is ever assigned, and a fit call ends
\* with an error.
NonPositiveMinSizeRejected ==
    min_cluster_size <= 0 =>
        /\ phase = "new"
        /\ attrs = {}
        /\ called = "fit" => raised # "none"

\* the split of this iteration passes the size test and the score test
SplitAccepted ==
    /\ IterStep
    /\ Cardinality(indices0') >= min_cluster_size
    /\ Cardinality(indices1') >= min_cluster_size
    /\ \/ RatGe(Discrimination(y, indices0'), score')
       \/ RatGe(Discrimination(y, indices1'), score')

\* C11: an accepted split relabels exactly the points of indices1 to the
\* cluster count before the step, leaves indices0 on the parent label and
\* every other point as it was, raises the cluster count by one, replaces
\* the popped candidate on the queue by the two sides, each with the score
\* and dispersion computed from its own points, and finalizes nothing.
AcceptRelabelsAndPushes ==
    [][SplitAccepted =>
         /\ indices0' \cup indices1' = PointsOf(labels, label')
         /\ indices0' \cap indices1' = {}
         /\ \A i \in DOMAIN labels :
               /\ i \in indices1' => labels'[i] = n_clusters_
               /\ i \in indices0' => labels'[i] = label'
               /\ i \notin indices1' => labels'[i] = labels[i]
         /\ DOMAIN labels' = DOMAIN labels
         /\ n_clusters_' = n_clusters_ + 1
         /\ HeapEntries(heap') =
               (HeapEntries(heap) \ {Candidate(label')}) \cup
               {Entry(Variance(y, indices0'), label',
                      Discrimination(y, indices0')),
                Entry(Variance(y, indices1'), n_clusters_,
                      Discrimination(y, indices1'))}
         /\ Len(heap') = Len(heap) + 1
         /\ clusters' = clusters
         /\ scores' = scores]_vars

\* a second split was accepted while another candidate waited: the new
\* side carries label 2 and a score other than its parent's
AcceptRelabelsAndPushesWitness ==
    /\ phase = "fitting"
    /\ it = 2
    /\ n_clusters_ = 3
    /\ Len(heap) = 3
    /\ clusters = <<>>
    /\ indices1 = PointsOf(labels, 2)
    /\ indices0 = PointsOf(labels, label)
    /\ ~RatEq(score1, score)
    /\ ~RatEq(score0, score1)

\* how often v occurs in the sequence q
Count(q, v) == Cardinality({i \in 1..Len(q) : q[i] = v})

\* C12: in the loop a finalized cluster stays finalized, is never popped
\* again and never goes back on the queue, and no cluster is finalized
\* twice; when the loop ends the finalized clusters and the candidates left
\* on the queue are together the labels 0..n_clusters_-1, each once, and
\* scores_ holds the score of each of them once, a leftover candidate's
\* points getting the rank whose score is the one the candidate carries.
FinishedOnceEach ==
    [][/\ IterStep =>
            /\ label' \notin SeqRange(clusters)
            /\ SubSeq(clusters', 1, Len(clusters)) = clusters
            /\ SubSeq(scores', 1, Len(scores)) = scores
            /\ Len(scores') = Len(clusters')
            /\ \A i, j \in 1..Len(clusters') :
                  clusters'[i] = clusters'[j] => i = j
            /\ \A e \in HeapEntries(heap') :
                  e.label \notin SeqRange(clusters')
       /\ EndStep =>
            /\ Len(ActiveSeq) = n_clusters_
            /\ SeqRange(ActiveSeq) = 0..(n_clusters_ - 1)
            /\ Len(scores_') = n_clusters_
            /\ \A v \in SeqRange(scores_') :
                  Count(scores_', v) =
                     Count(scores \o [i \in 1..Len(heap) |-> heap[i].score], v)
            /\ \A e \in HeapEntries(heap) :
                  /\ PointsOf(labels, e.label) # {}
                  /\ \A i \in PointsOf(labels, e.label) :
                        scores_'[labels_'[i] + 1] = e.score]_vars

\* a fit of two iterations that ended with three clusters: all three were
\* still candidates on the queue when the loop ran out
FinishedOnceEachWitness ==
    /\ phase = "fitted"
    /\ n_iter = 2
    /\ n_clusters_ = 3
    /\ Len(scores_) = 3
    /\ SeqRange(labels_) = {0, 1, 2}

\* the scores of the finalized clusters sc and of the candidates on h
ActiveScores(sc, h) == SeqRange(sc) \cup {e.score : e \in HeapEntries(h)}

\* C13: fit starts from the single score 0; after every loop iteration some
\* active cluster (candidate or finalized) scores at least as high as each
\* active cluster did before it, so the maximum never decreases; and when
\* fit returns, scores_[0] is at least every score of the loop's end and
\* at least 0.
MaxScoreNeverDecreases ==
    [][/\ (phase = "new" /\ phase' = "fitting") =>
            ActiveScores(scores', heap') = {Zero}
       /\ IterStep =>
            /\ \A a \in ActiveScores(scores, heap) :
                  \E b \in ActiveScores(scores', heap') : RatGe(b, a)
            /\ \E b \in ActiveScores(scores', heap') : RatGe(b, Zero)
       /\ EndStep =>
            /\ \A a \in ActiveScores(scores, heap) : RatGe(scores_'[1], a)
            /\ RatGe(scores_'[1], Zero)]_vars

\* a second split, of a cluster of positive score, was accepted because a
\* side scores higher still
MaxScoreNeverDecreasesWitness ==
    /\ phase = "fitting"
    /\ it = 2
    /\ n_clusters_ = 3
    /\ RatLt(Zero, score)
    /\ RatLt(score, PyMax(score0, score1))
    /\ \A a \in ActiveScores(scores, heap) : RatGe(PyMax(score0, score1), a)
====
